---- MODULE Spec2Model ----
(***************************************************************************)
(* Dataverse -> Postgres staging sync (scripts/dataverse_sync.py).         *)
(*                                                                         *)
(* The model follows main() statement by statement from the point where    *)
(* the command line has been parsed: token request, key selection,         *)
(* connect, and for every key of run_keys the paged fetch (dv_get_paged,   *)
(* one action per loop iteration and per kind of response), the staging    *)
(* statements, the optional transform and the commit; the except/finally   *)
(* path issues rollback and close.  The store is a transactional store:    *)
(* db is its committed state, tx the state seen by the open transaction.   *)
(* The remote API is the environment: it answers each GET with a page, a   *)
(* throttle status, another error status or a transport failure.           *)
(***************************************************************************)
EXTENDS Integers, Sequences, FiniteSets, TLC

\* ------------------------------------------------------------------------
\* Bounds of the model
\* ------------------------------------------------------------------------
\* number of invocations of main() in one behaviour
MaxRuns == 1
\* throttled responses the server gives during one call of dv_get_paged
MaxThrottle == 1

\* ------------------------------------------------------------------------
\* Values
\* ------------------------------------------------------------------------
\* a URL is <<entity set, page>>; NoUrl is the falsy value that ends `while url`
NoUrl == << >>
\* max_pages: << >> is None (no cap), <<k>> is the integer k
NoCap == << >>
\* a response header: absent, or present with a string value
NoHeader == [present |-> FALSE, val |-> << >>]
Header(v) == [present |-> TRUE, val |-> v]

\* keys of TABLES, in the order the dict literal declares them.  The model
\* carries the first three entries; the two further ones
\* (fsip_maintenancecontract_devices, systemusers) are configured the same
\* way (no select, no filter, schema "staging", a CREATE OR REPLACE VIEW).
TABLES ==
  << "new_servloc", "fsip_maintenancecontract", "fsip_buildinglocations" >>

Range(s) == { s[i] : i \in 1..Len(s) }

Keys == Range(TABLES)

\* position of a key in the registry
RegistryIndex(k) == CHOOSE i \in 1..Len(TABLES) : TABLES[i] = k

\* the transform statements of the dict literal: every entry carries one
SourceRegistry == [ k \in Keys |-> "CREATE OR REPLACE VIEW" ]

\* ------------------------------------------------------------------------
\* The remote API (environment): each entity set is a chain of pages
\* ------------------------------------------------------------------------
\* sizes of the `value` arrays of the pages of each entity set
PageSizes(k) ==
  CASE k = "new_servloc" -> <<1, 2>>
    [] k = "fsip_maintenancecontract" -> <<0>>
    [] OTHER -> <<1>>

NumPages(k) == Len(PageSizes(k))

\* the records of page p of entity set k (data.get("value", []))
PageValue(k, p) == [ i \in 1..PageSizes(k)[p] |-> <<k, p, i>> ]

\* data.get("@odata.nextLink")
NextLink(k, p) == IF p < NumPages(k) THEN <<k, p + 1>> ELSE NoUrl

\* urljoin(base_api, entityset) (+ $select/$filter, both None in TABLES)
FirstUrl(k) == <<k, 1>>

ThrottleStatuses == {429, 503, 504}
ErrorStatuses == {404, 500}

\* Retry-After headers the server may send (strings as character sequences):
\* absent, below the floor, above the floor, negative, and an HTTP date
RetryAfterValues ==
  { NoHeader, Header(<<"2">>), Header(<<"7">>), Header(<<"-", "1">>),
    Header(<<"W", "e", "d">>) }

Digits == {"0", "1", "2", "3", "4", "5", "6", "7", "8", "9"}

DigitVal(c) ==
  CASE c = "0" -> 0 [] c = "1" -> 1 [] c = "2" -> 2 [] c = "3" -> 3
    [] c = "4" -> 4 [] c = "5" -> 5 [] c = "6" -> 6 [] c = "7" -> 7
    [] c = "8" -> 8 [] OTHER -> 9

RECURSIVE DigitsValue(_)
DigitsValue(s) ==
  IF s = <<>> THEN 0
  ELSE 10 * DigitsValue(SubSeq(s, 1, Len(s) - 1)) + DigitVal(s[Len(s)])

\* int(s) of Python for a string: optional sign, then decimal digits;
\* anything else raises ValueError (ok = FALSE)
PyInt(s) ==
  LET body == IF s # <<>> /\ s[1] \in {"-", "+"} THEN Tail(s) ELSE s
  IN  IF body = <<>> \/ \E i \in 1..Len(body) : body[i] \notin Digits
        THEN [ok |-> FALSE, val |-> 0]
        ELSE [ok |-> TRUE,
              val |-> IF s[1] = "-" THEN 0 - DigitsValue(body)
                      ELSE DigitsValue(body)]

\* resp.headers.get("Retry-After", "5")
HeaderGet(h) == IF h.present THEN h.val ELSE <<"5">>

Max(a, b) == IF a >= b THEN a ELSE b

\* time.sleep(max(retry_after, 5)): the floor of the backoff
BackoffFloor == 5

\* ------------------------------------------------------------------------
\* Command line (inputs of a run)
\* ------------------------------------------------------------------------
UnknownKey == "unknown_key"

\* --only: << >> stands for the flag absent (None) and for the flag given
\* without keys ([]), which `if args.only` treats alike; otherwise one name
\* (a registry key or an unknown key), or two names among the first two
\* registry keys and an unknown key, in either order and with repetition
OnlyChoices ==
  LET names == Keys \cup {UnknownKey}
      two == {TABLES[1], TABLES[2], UnknownKey}
  IN  {<< >>} \cup { <<a>> : a \in names }
        \cup { <<a, b>> : a \in two, b \in two }

\* --max-pages: None, or an integer
MaxPagesChoices == { NoCap, <<0>>, <<1>> }

\* --sleep: 0.0 (default) or a positive delay
SleepChoices == {0, 1}

\* ------------------------------------------------------------------------
\* The store
\* ------------------------------------------------------------------------
AbsentTable == [exists |-> FALSE, rows |-> << >>]
Table(rs) == [exists |-> TRUE, rows |-> rs]

\* json.dumps(r): the record serialised as a JSON text
JsonDumps(r) == <<"json">> \o r

\* a row of a staging table: payload jsonb, pulled_at timestamptz DEFAULT now()
Row(r, ts) == [payload |-> JsonDumps(r), pulled_at |-> ts]

\* rows written by an earlier deployment, before the first run of the model
LegacyRows(k) == << Row(<<k, 0, 1>>, <<0, 0>>) >>

\* a connection left in autocommit mode
autocommit_on == TRUE

\* conn.autocommit = False
autocommit == FALSE

VARIABLES
  run,        \* number of invocations of main() started so far
  pc,         \* position of main(): the statement to execute next
  args,       \* parsed command line: only, max_pages, sleep, no_transform
  token,      \* the access token held by the session ("" before the request)
  run_keys,   \* the keys main() iterates over
  missing,    \* the unknown keys main() reports
  idx,        \* position of the for loop in run_keys (0 before the loop)
  conn,       \* "none", "open" or "closed"
  db,         \* committed state of the store
  tx,         \* state of the store as the open transaction sees it
  url,        \* dv_get_paged: the current request URL
  pages,      \* dv_get_paged: the pages counter
  all_rows,   \* dv_get_paged: the accumulator
  resp,       \* dv_get_paged: the last response (n: attempt, url, status, hdr)
  slept,      \* dv_get_paged: the sleeps of the last loop iteration
  served,     \* the URLs answered with a page during the job's fetch, in order
  rows,       \* main(): the RecordSet dv_get_paged returned
  err,        \* the exception raised (type "" if none; status of an HTTPError)
  exit,       \* "": running, "0" / "2": value returned, "raised": re-raised
  log,        \* this run's network and store operations, in order of issue
  pre_db,     \* committed state of the store when the run started
  fetched,    \* the RecordSets dv_get_paged returned in this run, by position
  registry    \* TABLES: the transform statement of each key ("": none)

vars ==
  << run, pc, args, token, run_keys, missing, idx, conn, db, tx, url, pages,
     all_rows, resp, slept, served, rows, err, exit, log, pre_db, fetched,
     registry >>

mainVars == << run, args, token, run_keys, missing, conn, pre_db, registry >>
fetchVars == << url, pages, all_rows, resp, slept >>
storeVars == << db, tx >>

NoResp == [n |-> 0, url |-> NoUrl, status |-> 0, hdr |-> NoHeader]

NoErr == [type |-> "", status |-> 0]
Error(t, st) == [type |-> t, status |-> st]

\* the key main() is working on
key == run_keys[idx]

\* cfg.get("transform_sql"): the statement of the entry, falsy when the
\* entry has none (the key absent, None, or an empty string)
transform_sql(k) == registry[k]

\* now() inside the transaction of the job at position i of run r
Now(r, i) == <<r, i>>

Event(what) == <<what, idx>>

\* the store before the first run: the staging schema exists, two staging
\* tables hold rows of an earlier load, the third has never been created
InitDb ==
  [ schema |-> TRUE,
    tables |-> [ k \in Keys |->
                 IF k = "fsip_buildinglocations" THEN AbsentTable
                 ELSE Table(LegacyRows(k)) ],
    views |-> {} ]

InitMain ==
  /\ run = 0
  /\ pc = "idle"
  /\ args = [only |-> << >>, max_pages |-> NoCap, sleep |-> 0,
             no_transform |-> FALSE]
  /\ token = ""
  /\ run_keys = << >>
  /\ missing = << >>
  /\ idx = 0
  /\ conn = "none"
  /\ db = InitDb
  /\ tx = InitDb
  /\ url = NoUrl
  /\ pages = 0
  /\ all_rows = << >>
  /\ resp = NoResp
  /\ slept = << >>
  /\ served = << >>
  /\ rows = << >>
  /\ err = NoErr
  /\ exit = ""
  /\ log = << >>
  /\ pre_db = InitDb
  /\ fetched = << >>

\* the registry is the dict literal of the source
Init ==
  /\ InitMain
  /\ registry = SourceRegistry

\* the registry as a configuration ("Configure your tables here",
\* "transform_sql: ... (optional)"): the dict literal as it stands, or with
\* the statement of its first entry still to be pasted ("paste SQL later")
RegistryChoices ==
  { SourceRegistry, [SourceRegistry EXCEPT ![TABLES[1]] = ""] }

InitRegistry ==
  /\ InitMain
  /\ registry \in RegistryChoices

\* ------------------------------------------------------------------------
\* main(): start, token, selection, connect
\* ------------------------------------------------------------------------
\* a new process: parser.parse_args()
StartRun ==
  /\ pc \in {"idle", "exit"}
  /\ run < MaxRuns
  /\ run' = run + 1
  /\ \E o \in OnlyChoices, m \in MaxPagesChoices, s \in SleepChoices,
        nt \in BOOLEAN :
       args' = [only |-> o, max_pages |-> m, sleep |-> s, no_transform |-> nt]
  /\ pc' = "token"
  /\ token' = ""
  /\ run_keys' = << >>
  /\ missing' = << >>
  /\ idx' = 0
  /\ conn' = "none"
  /\ tx' = db
  /\ pre_db' = db
  /\ url' = NoUrl
  /\ pages' = 0
  /\ all_rows' = << >>
  /\ resp' = NoResp
  /\ slept' = << >>
  /\ served' = << >>
  /\ rows' = << >>
  /\ err' = NoErr
  /\ exit' = ""
  /\ log' = << >>
  /\ fetched' = << >>
  /\ UNCHANGED << db, registry >>

\* the token is requested but the session headers are left without it
GetAccessToken_noheader ==
  /\ pc = "token"
  /\ log' = Append(log, Event("token"))
  /\ token' = ""
  /\ pc' = "select"
  /\ UNCHANGED << registry, run, args, run_keys, missing, idx, conn, pre_db,
                  fetched, served, rows, err, exit >>
  /\ UNCHANGED fetchVars
  /\ UNCHANGED storeVars

\* token = get_access_token(...); session.headers.update(...)
GetAccessToken ==
  /\ pc = "token"
  /\ log' = Append(log, Event("token"))
  /\ token' = "Bearer"
  /\ pc' = "select"
  /\ UNCHANGED << registry, run, args, run_keys, missing, idx, conn, pre_db,
                  fetched, served, rows, err, exit >>
  /\ UNCHANGED fetchVars
  /\ UNCHANGED storeVars

\* requests.post raises, or resp.raise_for_status() does: main() is left by
\* the exception before the try block
GetAccessTokenFails ==
  /\ pc = "token"
  /\ log' = Append(log, Event("token"))
  /\ err' = Error("HTTPError", 401)
  /\ exit' = "raised"
  /\ pc' = "exit"
  /\ UNCHANGED << idx, served, rows, fetched >>
  /\ UNCHANGED mainVars
  /\ UNCHANGED fetchVars
  /\ UNCHANGED storeVars

RECURSIVE Filter(_, _)
\* [k for k in s if k not in S]
Filter(s, S) ==
  IF s = << >> THEN << >>
  ELSE IF Head(s) \notin S THEN <<Head(s)>> \o Filter(Tail(s), S)
       ELSE Filter(Tail(s), S)

\* missing = [k for k in args.only if k not in TABLES]
Missing(only) == Filter(only, Keys)

\* run_keys = list(TABLES.keys()); if args.only: ... run_keys = args.only
RunKeys(only) == IF only # << >> THEN only ELSE TABLES

\* if args.only: ... if missing: print(...); return 2
SelectInvalid ==
  /\ pc = "select"
  /\ args.only # << >>
  /\ Missing(args.only) # << >>
  /\ missing' = Missing(args.only)
  /\ run_keys' = TABLES
  /\ exit' = "2"
  /\ pc' = "exit"
  /\ UNCHANGED << registry, run, args, token, conn, pre_db, idx, served, rows,
                  err, log, fetched >>
  /\ UNCHANGED fetchVars
  /\ UNCHANGED storeVars

SelectKeys ==
  /\ pc = "select"
  /\ (args.only = << >> \/ Missing(args.only) = << >>)
  /\ run_keys' = RunKeys(args.only)
  /\ pc' = "connect"
  /\ UNCHANGED << registry, run, args, token, missing, conn, pre_db, idx,
                  served, rows, err, exit, log, fetched >>
  /\ UNCHANGED fetchVars
  /\ UNCHANGED storeVars

\* conn = psycopg2.connect(analytics_db_url); conn.autocommit = False
Connect ==
  /\ pc = "connect"
  /\ log' = Append(log, Event("connect"))
  /\ conn' = "open"
  /\ tx' = db
  /\ pc' = "loop"
  /\ UNCHANGED << registry, run, args, token, run_keys, missing, pre_db, idx,
                  served, rows, err, exit, fetched, db >>
  /\ UNCHANGED fetchVars

\* psycopg2.connect raises: main() is left before the try block
ConnectFails ==
  /\ pc = "connect"
  /\ log' = Append(log, Event("connect"))
  /\ err' = Error("OperationalError", 0)
  /\ exit' = "raised"
  /\ pc' = "exit"
  /\ UNCHANGED << idx, served, rows, fetched >>
  /\ UNCHANGED mainVars
  /\ UNCHANGED fetchVars
  /\ UNCHANGED storeVars

max_pages == args.max_pages
sleep_s == args.sleep

\* ------------------------------------------------------------------------
\* main(): the for loop over run_keys
\* ------------------------------------------------------------------------
\* for key in run_keys: cfg = TABLES[key]; build url; call dv_get_paged,
\* whose first statements are all_rows = [], url = first_url, pages = 0
JobStart ==
  /\ pc = "loop"
  /\ idx < Len(run_keys)
  /\ idx' = idx + 1
  /\ url' = FirstUrl(run_keys[idx + 1])
  /\ pages' = 0
  /\ all_rows' = << >>
  /\ resp' = NoResp
  /\ slept' = << >>
  /\ served' = << >>
  /\ pc' = "fetch"
  /\ UNCHANGED << rows, err, exit, log, fetched >>
  /\ UNCHANGED mainVars
  /\ UNCHANGED storeVars

\* the loop is exhausted: finally conn.close(); print("Done."); return 0
LoopDone ==
  /\ pc = "loop"
  /\ idx = Len(run_keys)
  /\ log' = Append(log, <<"close", 0>>)
  /\ conn' = "closed"
  /\ exit' = "0"
  /\ pc' = "exit"
  /\ UNCHANGED << registry, run, args, token, run_keys, missing, pre_db, idx,
                  served, rows, err, fetched >>
  /\ UNCHANGED fetchVars
  /\ UNCHANGED storeVars

\* ------------------------------------------------------------------------
\* dv_get_paged(session, url, max_pages=args.max_pages, sleep_s=args.sleep)
\* ------------------------------------------------------------------------

\* the cap compared one page late
CapExceeded_late(p) == max_pages # NoCap /\ p > max_pages[1] + 1

\* max_pages is not None and pages > max_pages, after pages += 1
CapExceeded(p) == max_pages # NoCap /\ p > max_pages[1]

\* throttled responses received so far in this call
Throttled == pages - (url[2] - 1)

\* the frame of dv_get_paged is left: its locals are gone
FrameLeft ==
  /\ url' = NoUrl
  /\ pages' = 0
  /\ all_rows' = << >>
  /\ resp' = NoResp
  /\ slept' = << >>

\* return all_rows, back in main(): rows = dv_get_paged(...)
Return ==
  /\ rows' = all_rows
  /\ fetched' = Append(fetched, all_rows)
  /\ pc' = "ensure_schema"
  /\ FrameLeft

\* the first request of a call is the job's first use of the network
LogGet == IF pages = 0 THEN Append(log, Event("get")) ELSE log

\* while url: is false
DvReturn ==
  /\ pc = "fetch"
  /\ url = NoUrl
  /\ Return
  /\ UNCHANGED << idx, served, err, exit, log >>
  /\ UNCHANGED mainVars
  /\ UNCHANGED storeVars

\* pages += 1; if max_pages is not None and pages > max_pages: break
DvCapBreak ==
  /\ pc = "fetch"
  /\ url # NoUrl
  /\ CapExceeded(pages + 1)
  /\ Return
  /\ UNCHANGED << idx, served, err, exit, log >>
  /\ UNCHANGED mainVars
  /\ UNCHANGED storeVars

\* the loop body reaches resp = session.get(url, timeout=120)
Requesting ==
  /\ pc = "fetch"
  /\ url # NoUrl
  /\ ~CapExceeded(pages + 1)

Response(st, h) == [n |-> pages + 1, url |-> url, status |-> st, hdr |-> h]

\* what the loop body does with a throttled response whose header parses:
\* time.sleep(max(retry_after, 5)); continue
Backoff(retry_after) ==
  /\ slept' = << Max(retry_after, BackoffFloor) >>
  /\ pc' = "fetch"
  /\ UNCHANGED << url, all_rows, err >>

\* status 429, 503 or 504: retry_after = int(...); sleep; continue
\* (int() raising ValueError leaves dv_get_paged by the exception)
DvThrottled ==
  /\ Requesting
  /\ Throttled < MaxThrottle
  /\ \E st \in ThrottleStatuses, h \in RetryAfterValues :
       LET retry_after == PyInt(HeaderGet(h))
       IN  /\ resp' = Response(st, h)
           /\ IF retry_after.ok
                THEN Backoff(retry_after.val)
                ELSE /\ slept' = << >>
                     /\ pc' = "except"
                     /\ err' = Error("ValueError", 0)
                     /\ UNCHANGED << url, all_rows >>
  /\ pages' = pages + 1
  /\ log' = LogGet
  /\ UNCHANGED << idx, served, rows, exit, fetched >>
  /\ UNCHANGED mainVars
  /\ UNCHANGED storeVars

\* a page whose chunk replaces the accumulator instead of extending it
DvPage_assign ==
  /\ Requesting
  /\ resp' = Response(200, NoHeader)
  /\ pages' = pages + 1
  /\ all_rows' = PageValue(url[1], url[2])
  /\ url' = NextLink(url[1], url[2])
  /\ slept' = IF sleep_s # 0 THEN <<sleep_s>> ELSE << >>
  /\ served' = Append(served, url)
  /\ log' = LogGet
  /\ UNCHANGED << pc, idx, rows, err, exit, fetched >>
  /\ UNCHANGED mainVars
  /\ UNCHANGED storeVars

\* a page: all_rows.extend(chunk); url = data.get("@odata.nextLink");
\* if sleep_s: time.sleep(sleep_s)
DvPage ==
  /\ Requesting
  /\ resp' = Response(200, NoHeader)
  /\ pages' = pages + 1
  /\ all_rows' = all_rows \o PageValue(url[1], url[2])
  /\ url' = NextLink(url[1], url[2])
  /\ slept' = IF sleep_s # 0 THEN <<sleep_s>> ELSE << >>
  /\ served' = Append(served, url)
  /\ log' = LogGet
  /\ UNCHANGED << pc, idx, rows, err, exit, fetched >>
  /\ UNCHANGED mainVars
  /\ UNCHANGED storeVars

\* an error status that ends the loop and hands back the accumulator
DvHttpError_partial ==
  /\ Requesting
  /\ \E st \in ErrorStatuses : err' = Error("HTTPError", st)
  /\ log' = LogGet
  /\ Return
  /\ UNCHANGED << idx, served, exit >>
  /\ UNCHANGED mainVars
  /\ UNCHANGED storeVars

\* any other non-success status: resp.raise_for_status() raises
DvHttpError ==
  /\ Requesting
  /\ \E st \in ErrorStatuses :
       /\ resp' = Response(st, NoHeader)
       /\ err' = Error("HTTPError", st)
  /\ pages' = pages + 1
  /\ slept' = << >>
  /\ pc' = "except"
  /\ log' = LogGet
  /\ UNCHANGED << idx, served, rows, exit, fetched, url, all_rows >>
  /\ UNCHANGED mainVars
  /\ UNCHANGED storeVars

\* session.get raises (connection error, timeout): no response
DvTransportError ==
  /\ Requesting
  /\ pages' = pages + 1
  /\ slept' = << >>
  /\ resp' = NoResp
  /\ err' = Error("ConnectionError", 0)
  /\ pc' = "except"
  /\ log' = LogGet
  /\ UNCHANGED << idx, served, rows, exit, fetched, url, all_rows >>
  /\ UNCHANGED mainVars
  /\ UNCHANGED storeVars

\* ------------------------------------------------------------------------
\* Staging statements, transform, commit
\* ------------------------------------------------------------------------
\* cur.execute(...) succeeding with effect t on the store
Execute(t) ==
  /\ tx' = t
  /\ db' = IF autocommit THEN t ELSE db

\* CREATE SCHEMA IF NOT EXISTS
ensure_schema(t) == [t EXCEPT !.schema = TRUE]

\* CREATE TABLE IF NOT EXISTS
ensure_raw_table(t, k) ==
  IF t.tables[k].exists THEN t
  ELSE [t EXCEPT !.tables[k] = Table(<< >>)]

\* a clear that leaves the rows in place
truncate_table_noop(t, k) == t

\* TRUNCATE TABLE
truncate_table(t, k) == [t EXCEPT !.tables[k].rows = << >>]

\* INSERT INTO ... (payload) VALUES %s, one row per record
insert_raw_rows(t, k, rs, ts) ==
  [t EXCEPT !.tables[k].rows = @ \o [ i \in 1..Len(rs) |-> Row(rs[i], ts) ]]

\* run_sql(cur, transform_sql): CREATE OR REPLACE VIEW over the staging table
run_sql(t, k) == [t EXCEPT !.views = @ \cup {k}]

StoreStep(at, next, what, t) ==
  /\ pc = at
  /\ Execute(t)
  /\ log' = Append(log, Event(what))
  /\ pc' = next
  /\ UNCHANGED << idx, served, rows, err, exit, fetched >>
  /\ UNCHANGED mainVars
  /\ UNCHANGED fetchVars

EnsureSchema ==
  StoreStep("ensure_schema", "ensure_raw_table", "ensure_schema",
            ensure_schema(tx))

\* the load goes on to the insert without clearing the table
EnsureRawTable_noclear ==
  StoreStep("ensure_raw_table", "insert", "ensure_raw_table",
            ensure_raw_table(tx, key))

EnsureRawTable ==
  StoreStep("ensure_raw_table", "truncate", "ensure_raw_table",
            ensure_raw_table(tx, key))

TruncateTable ==
  StoreStep("truncate", "insert", "truncate", truncate_table(tx, key))

\* the empty RecordSet is sent to the store, which rejects an INSERT
\* without values
InsertNothing_raise ==
  /\ pc = "insert"
  /\ rows = << >>
  /\ log' = Append(log, Event("insert"))
  /\ err' = Error("StorageError", 0)
  /\ pc' = "except"
  /\ UNCHANGED << idx, served, rows, exit, fetched >>
  /\ UNCHANGED mainVars
  /\ UNCHANGED fetchVars
  /\ UNCHANGED storeVars

\* insert_raw_rows: if not rows: return
InsertNothing ==
  /\ pc = "insert"
  /\ rows = << >>
  /\ pc' = "transform"
  /\ UNCHANGED << idx, served, rows, err, exit, log, fetched >>
  /\ UNCHANGED mainVars
  /\ UNCHANGED fetchVars
  /\ UNCHANGED storeVars

InsertRawRows ==
  /\ rows # << >>
  /\ StoreStep("insert", "transform", "insert",
               insert_raw_rows(tx, key, rows, Now(run, idx)))

\* a condition that forgets the --no-transform switch
Transforms_ignores_switch == transform_sql(key) # ""

\* if not args.no_transform: ... if transform_sql: run_sql(cur, transform_sql)
Transforms == ~args.no_transform /\ transform_sql(key) # ""

RunTransform ==
  /\ pc = "transform"
  /\ Transforms
  /\ StoreStep("transform", "commit", "transform", run_sql(tx, key))

SkipTransform ==
  /\ pc = "transform"
  /\ ~Transforms
  /\ pc' = "commit"
  /\ UNCHANGED << idx, served, rows, err, exit, log, fetched >>
  /\ UNCHANGED mainVars
  /\ UNCHANGED fetchVars
  /\ UNCHANGED storeVars

\* a loop body without its commit: the job's changes stay in the open
\* transaction
Commit_missing ==
  /\ pc = "commit"
  /\ pc' = "loop"
  /\ UNCHANGED << idx, served, rows, err, exit, log, fetched >>
  /\ UNCHANGED mainVars
  /\ UNCHANGED fetchVars
  /\ UNCHANGED storeVars

\* conn.commit()
Commit ==
  /\ pc = "commit"
  /\ db' = tx
  /\ tx' = tx
  /\ log' = Append(log, Event("commit"))
  /\ pc' = "loop"
  /\ UNCHANGED << idx, served, rows, err, exit, fetched >>
  /\ UNCHANGED mainVars
  /\ UNCHANGED fetchVars

\* the statement main() issues at a store position
Statement(at) ==
  CASE at = "ensure_schema" -> "ensure_schema"
    [] at = "ensure_raw_table" -> "ensure_raw_table"
    [] at = "truncate" -> "truncate"
    [] at = "insert" -> "insert"
    [] at = "transform" -> "transform"
    [] OTHER -> "commit"

\* a statement of the job (or its commit) raises
StorageError ==
  /\ \/ pc \in {"ensure_schema", "ensure_raw_table", "truncate", "commit"}
     \/ pc = "insert" /\ rows # << >>
     \/ pc = "transform" /\ Transforms
  /\ log' = Append(log, Event(Statement(pc)))
  /\ err' = Error("StorageError", 0)
  /\ pc' = "except"
  /\ UNCHANGED << idx, served, rows, exit, fetched >>
  /\ UNCHANGED mainVars
  /\ UNCHANGED fetchVars
  /\ UNCHANGED storeVars

\* ------------------------------------------------------------------------
\* except Exception: conn.rollback(); print; raise -- finally: conn.close()
\* ------------------------------------------------------------------------
\* a handler without the finally clause: the connection is never closed
ExceptRollback_leak ==
  /\ pc = "except"
  /\ log' = Append(log, Event("rollback"))
  /\ tx' = db
  /\ exit' = "raised"
  /\ pc' = "exit"
  /\ FrameLeft
  /\ UNCHANGED << registry, run, args, token, run_keys, missing, pre_db, idx,
                  served, rows, err, fetched, db, conn >>

\* the handler and the finally clause run to the end of main(): the frame of
\* dv_get_paged is gone, the rollback is issued, then the close, and the
\* exception leaves main()
ExceptRollback ==
  /\ pc = "except"
  /\ log' = log \o << Event("rollback"), <<"close", 0>> >>
  /\ tx' = db
  /\ conn' = "closed"
  /\ exit' = "raised"
  /\ pc' = "exit"
  /\ FrameLeft
  /\ UNCHANGED << registry, run, args, token, run_keys, missing, pre_db, idx,
                  served, rows, err, fetched, db >>

Next ==
  \/ StartRun
  \/ GetAccessToken
  \/ GetAccessTokenFails
  \/ SelectInvalid
  \/ SelectKeys
  \/ Connect
  \/ ConnectFails
  \/ JobStart
  \/ LoopDone
  \/ DvReturn
  \/ DvCapBreak
  \/ DvThrottled
  \/ DvPage
  \/ DvHttpError
  \/ DvTransportError
  \/ EnsureSchema
  \/ EnsureRawTable
  \/ TruncateTable
  \/ InsertNothing
  \/ InsertRawRows
  \/ RunTransform
  \/ SkipTransform
  \/ Commit
  \/ StorageError
  \/ ExceptRollback

Spec == Init /\ [][Next]_vars

\* the server answers a request that is issued again and again with a
\* response that is not a throttle status (or the transport fails), and
\* dv_get_paged, once its loop condition is false or the cap is exceeded,
\* returns
ServerFair ==
  /\ SF_vars(DvPage \/ DvHttpError \/ DvTransportError)
  /\ WF_vars(DvReturn \/ DvCapBreak)

SpecFair == Spec /\ ServerFair

\* the same program over either registry
SpecRegistry == InitRegistry /\ [][Next]_vars

\* ------------------------------------------------------------------------
\* Properties
\* ------------------------------------------------------------------------
Min(a, b) == IF a <= b THEN a ELSE b

RECURSIVE ConcatPages(_, _)
\* the records of the first n pages of entity set k, in page order
ConcatPages(k, n) ==
  IF n = 0 THEN << >> ELSE ConcatPages(k, n - 1) \o PageValue(k, n)

RECURSIVE SumSizes(_, _)
\* the sum of the sizes of the first n pages of entity set k
SumSizes(k, n) == IF n = 0 THEN 0 ELSE SumSizes(k, n - 1) + PageSizes(k)[n]

\* the operations of the log issued for the job at position p
EventsAt(p) == { i \in 1..Len(log) : log[i][2] = p }

\* positions of the log that hold event e
Where(e) == { i \in 1..Len(log) : log[i] = e }

\* the rows a committed load of RecordSet rs at position p of this run leaves
Loaded(rs, p) == Table([ i \in 1..Len(rs) |-> Row(rs[i], Now(run, p)) ])

\* no key occurs twice in run_keys
DistinctKeys ==
  \A p, q \in 1..Len(run_keys) : run_keys[p] = run_keys[q] => p = q

\* a job (position idx >= 1) has failed: its exception is in flight or has
\* been re-raised
JobFailed == idx >= 1 /\ err # NoErr

\* C1: when the requested keys contain an unknown key the run returns 2
\* having issued no network operation (no token request, no GET) and no
\* store operation (no connect, statement, commit or rollback), and the keys
\* reported are exactly the requested keys that are not in the registry.
C1_SelectionBeforeAnyActivity ==
  /\ (pc = "select" /\ Missing(args.only) # << >>) => log = << >>
  /\ exit = "2" =>
       /\ log = << >>
       /\ conn = "none"
       /\ db = pre_db
       /\ missing = Missing(args.only)

\* C2: in a run over distinct jobs where the jobs before position idx have
\* committed and a step of the job at idx fails, the committed store holds
\* the newly loaded RecordSet of every earlier job, the pre-run content of
\* the failed job and of every later job, and no operation of a later job
\* is ever issued.
C2_AtomicPerJobFailure ==
  (JobFailed /\ idx >= 2 /\ DistinctKeys) =>
    \A p \in 1..Len(run_keys) :
      LET k == run_keys[p]
      IN  /\ p < idx => db.tables[k] = Loaded(fetched[p], p)
          /\ p >= idx => db.tables[k] = pre_db.tables[k]
          /\ p > idx => EventsAt(p) = {}

\* C2 witness: job A committed new rows, the transform of job B failed and
\* was rolled back over a non-empty pre-run table, job C was selected
C2_Witness ==
  /\ exit = "raised"
  /\ Len(run_keys) = 3
  /\ DistinctKeys
  /\ idx = 2
  /\ err.type = "StorageError"
  /\ log[Len(log) - 2] = <<"transform", 2>>
  /\ db.tables[run_keys[1]].rows # pre_db.tables[run_keys[1]].rows
  /\ pre_db.tables[run_keys[2]].rows # << >>

\* C3: with a page cap k and a resource of N pages, dv_get_paged returns the
\* records of exactly min(k, N) pages, however many throttled responses
\* were interleaved.
C3_ThrottleNotCountedAsPage ==
  (pc = "ensure_schema" /\ max_pages # NoCap) =>
    LET n == Min(max_pages[1], NumPages(key))
    IN  /\ Len(served) = n
        /\ rows = ConcatPages(key, n)

\* C4: with no page cap, dv_get_paged returns the concatenation of all N
\* pages in page order (its length the sum of the page sizes), every page
\* URL is consumed exactly once, in chain order, and once the page without
\* continuation link has been consumed no request can be issued any more.
C4_PaginationComplete ==
  /\ (pc = "ensure_schema" /\ max_pages = NoCap) =>
       /\ rows = ConcatPages(key, NumPages(key))
       /\ Len(rows) = SumSizes(key, NumPages(key))
       /\ served = [ p \in 1..NumPages(key) |-> <<key, p>> ]
  /\ (pc = "fetch" /\ max_pages = NoCap) =>
       /\ served = [ p \in 1..Len(served) |-> <<key, p>> ]
       /\ all_rows = ConcatPages(key, Len(served))
       /\ Len(served) = NumPages(key) =>
            ~ENABLED (DvPage \/ DvThrottled \/ DvHttpError \/ DvTransportError)

\* C4 witness: an uncapped fetch of the two-page entity set has returned
\* its three records
C4_Witness ==
  /\ pc = "ensure_schema"
  /\ max_pages = NoCap
  /\ NumPages(key) = 2
  /\ Len(rows) = 3

\* C5: with a page cap k, at most k requests are answered with a page; when
\* the cap stops the loop dv_get_paged returns the records accumulated so
\* far without an error; with k = 0 it issues no request and returns an
\* empty RecordSet.
C5_PageCapHonored ==
  (max_pages # NoCap /\ idx >= 1) =>
    /\ Len(served) <= max_pages[1]
    /\ (pc = "fetch" /\ url # NoUrl /\ pages >= max_pages[1]) =>
         /\ ENABLED DvCapBreak
         /\ ~ENABLED (DvPage \/ DvThrottled \/ DvHttpError \/ DvTransportError)
    /\ pc = "ensure_schema" =>
         /\ rows = ConcatPages(key, Len(served))
         /\ err = NoErr
    /\ max_pages[1] = 0 =>
         /\ Where(<<"get", idx>>) = {}
         /\ pc = "ensure_schema" => rows = << >>

\* C5 witness: cap 1 on the two-page entity set: one page served, its
\* record returned
C5_Witness ==
  /\ pc = "ensure_schema"
  /\ max_pages = <<1>>
  /\ NumPages(key) = 2
  /\ Len(served) = 1
  /\ rows = PageValue(key, 1)

\* a step in which a request is answered with a throttle status
ThrottledStep == resp'.n # resp.n /\ resp'.status \in ThrottleStatuses

\* C6: on a 429/503/504 response the URL and the accumulator are unchanged,
\* the fetcher sleeps once, for max(Retry-After, 5) seconds (5 when the
\* header is absent, never less than 5) and not for the inter-page delay,
\* and the next request goes to the identical URL.
C6_ThrottleRetry ==
  [][ /\ ThrottledStep =>
           /\ url' = url
           /\ all_rows' = all_rows
           /\ Len(slept') = 1
           /\ slept'[1] >= BackoffFloor
           /\ ~resp'.hdr.present => slept'[1] = BackoffFloor
           /\ PyInt(HeaderGet(resp'.hdr)).ok =>
                slept'[1] = Max(PyInt(HeaderGet(resp'.hdr)).val, BackoffFloor)
      /\ (resp.status \in ThrottleStatuses /\ resp'.n > resp.n) =>
           resp'.url = resp.url
    ]_vars

\* C7: a throttled response never makes the fetch fail, whatever its
\* Retry-After header: a fetch fails only by a transport failure or by a
\* non-success status that is not a throttle status.
C7_ThrottleNeverSurfaced ==
  (JobFailed /\ err.type # "StorageError") =>
    \/ err.type = "ConnectionError"
    \/ err.type = "HTTPError" /\ err.status \notin ThrottleStatuses

Payloads(t) == [ i \in 1..Len(t.rows) |-> t.rows[i].payload ]

Count(s, x) == Cardinality({ i \in 1..Len(s) : s[i] = x })

\* s and t hold the same elements the same number of times
SameBag(s, t) ==
  /\ Len(s) = Len(t)
  /\ \A x \in Range(s) \cup Range(t) : Count(s, x) = Count(t, x)

\* C8: when a job that has already been loaded and committed in this run is
\* loaded and committed again (the remote data set never changes), the
\* committed staging table holds the same multiset of payloads, and as many
\* rows, after the second commit as after the first.
C8_ReloadIdempotent ==
  [][ ( /\ pc = "commit"
        /\ pc' = "loop"
        /\ \E p \in 1..(idx - 1) : run_keys[p] = key ) =>
      SameBag(Payloads(db'.tables[key]), Payloads(db.tables[key]))
    ]_vars

\* number of positions of run_keys whose job has committed
CommittedUpTo ==
  IF pc = "loop" \/ exit = "0" THEN idx
  ELSE IF idx >= 1 THEN idx - 1 ELSE 0

\* the last committed position of this run that loaded key k (0 if none)
LastLoad(k) ==
  LET P == { p \in 1..CommittedUpTo : run_keys[p] = k }
  IN  IF P = {} THEN 0 ELSE CHOOSE p \in P : \A q \in P : q <= p

\* the table holds the rows of one load: a RecordSet of entity set k (the
\* records of its first n pages), all rows stamped by one transaction
OneCycle(t, k) ==
  /\ t.exists
  /\ \E n \in 0..NumPages(k) :
       /\ Len(t.rows) = SumSizes(k, n)
       /\ \A i \in 1..Len(t.rows) :
            t.rows[i] = Row(ConcatPages(k, n)[i], t.rows[1].pulled_at)

\* C9: in every committed store state each staging table holds its initial
\* content or exactly the rows of one fetch cycle of its job; within a run
\* it holds the RecordSet fetched for the job's last commit of the run, and
\* its pre-run content if the job has not committed in the run (a cleared
\* or half-loaded table is never committed).
C9_NoHistoricalAccumulation ==
  \A k \in Keys :
    /\ db.tables[k] = InitDb.tables[k] \/ OneCycle(db.tables[k], k)
    /\ db.tables[k] =
         IF LastLoad(k) = 0 THEN pre_db.tables[k]
         ELSE Loaded(fetched[LastLoad(k)], LastLoad(k))

\* C9 witness: a table that held rows of an earlier load has been reloaded
\* and committed, and a later job failed after its table had been cleared
C9_Witness ==
  /\ exit = "raised"
  /\ idx = 2
  /\ Where(<<"truncate", 2>>) # {}
  /\ pre_db.tables[run_keys[1]].rows # << >>
  /\ db.tables[run_keys[1]] = Loaded(fetched[1], 1)
  /\ fetched[1] # << >>
  /\ db.tables[run_keys[2]] = pre_db.tables[run_keys[2]]
  /\ pre_db.tables[run_keys[2]].rows # << >>

\* C10: jobs execute in registry order, one after the other: when the first
\* request of a job is issued, every job of the run that precedes it in the
\* registry has already committed.
C10_RegistryOrder ==
  \A i \in 1..Len(log) :
    log[i][1] = "get" =>
      \A p \in 1..Len(run_keys) :
        RegistryIndex(run_keys[p]) < RegistryIndex(run_keys[log[i][2]]) =>
          \E j \in 1..(i - 1) : log[j] = <<"commit", p>>

\* the statements main() issues on the store for a job
StoreOps ==
  { "ensure_schema", "ensure_raw_table", "truncate", "insert", "transform",
    "commit" }

\* some request of the fetch can be issued
CanRequest == ENABLED (DvPage \/ DvThrottled \/ DvHttpError \/ DvTransportError)

\* C11: once a page request of a job (the first or a later one) has been
\* answered with a non-success status that is not a throttle status, the
\* fetch has raised and returned no RecordSet, no store statement of that job
\* is ever issued and the open transaction holds no change, no request is
\* issued again, no later job starts, and the run ends re-raising after the
\* rollback.
C11_HttpErrorFailsFetch ==
  (idx >= 1 /\ err.type = "HTTPError") =>
    /\ err.status \in ErrorStatuses
    /\ pc \in {"except", "exit"}
    /\ Len(fetched) = idx - 1
    /\ \A i \in EventsAt(idx) : log[i][1] \notin StoreOps
    /\ \A p \in (idx + 1)..Len(run_keys) : EventsAt(p) = {}
    /\ tx = db
    /\ ~CanRequest
    /\ ~ENABLED JobStart
    /\ pc = "exit" =>
         /\ exit = "raised"
         /\ SubSeq(log, Len(log) - 1, Len(log))
              = << <<"rollback", idx>>, <<"close", 0>> >>

\* C11 witness: the first job has committed; the second page request of the
\* second job was answered 500 after the first page had been accumulated;
\* the run has ended and the job's table still holds its pre-run rows
C11_Witness ==
  /\ exit = "raised"
  /\ err = Error("HTTPError", 500)
  /\ idx = 2
  /\ Where(<<"commit", 1>>) # {}
  /\ served = << <<run_keys[2], 1>> >>
  /\ db.tables[run_keys[2]] = pre_db.tables[run_keys[2]]
  /\ pre_db.tables[run_keys[2]].rows # << >>

\* positions of the log that hold an operation of kind what
WhereOp(what) == { i \in 1..Len(log) : log[i][1] = what }

\* C12: in a run that has started a job the token request has been issued
\* exactly once, as the first operation of the run (so before the first
\* request of the first job), it cannot be issued again (not between jobs,
\* not after a throttle, not after a failure), and the session that sends
\* every page request of every job holds the token that request returned.
C12_AuthenticateOnce ==
  idx >= 1 =>
    /\ WhereOp("token") = {1}
    /\ token = "Bearer"
    /\ ~ENABLED (GetAccessToken \/ GetAccessTokenFails)

\* C12 witness: the first job has committed and the first request of the
\* second job has been throttled; the retry is about to be sent
C12_Witness ==
  /\ idx = 2
  /\ pc = "fetch"
  /\ resp.status \in ThrottleStatuses
  /\ Where(<<"commit", 1>>) # {}
  /\ WhereOp("token") = {1}
  /\ token = "Bearer"

\* some operation on the store connection can be issued
CanUseStore ==
  ENABLED (EnsureSchema \/ EnsureRawTable \/ TruncateTable \/ InsertRawRows
             \/ RunTransform \/ Commit \/ StorageError \/ ExceptRollback)

\* C13: in a run the connection is opened at most once; before it is opened
\* no store operation is issued; while it is open the run has not ended;
\* once the run has ended with the connection opened, it has been closed
\* exactly once, by the last operation of the run (so after the last commit
\* or rollback), whether all jobs committed or a fetch, a store statement or
\* a transform failed, and no store operation can be issued any more.
C13_ConnectionLifecycle ==
  /\ Cardinality(WhereOp("connect")) <= 1
  /\ conn = "none" =>
       \A i \in 1..Len(log) : log[i][1] \in {"token", "connect"}
  /\ conn = "open" =>
       /\ exit = ""
       /\ WhereOp("close") = {}
       /\ Cardinality(WhereOp("connect")) = 1
  /\ (exit # "" /\ conn # "none") => conn = "closed"
  /\ conn = "closed" =>
       /\ exit \in {"0", "raised"}
       /\ WhereOp("close") = {Len(log)}
       /\ Cardinality(WhereOp("connect")) = 1
       /\ exit = "raised" => log[Len(log) - 1] = <<"rollback", idx>>
       /\ exit = "0" =>
            (run_keys # << >> => log[Len(log) - 1] = <<"commit", idx>>)
       /\ ~CanUseStore
       /\ ~ENABLED (Connect \/ ConnectFails)

\* C13 witness: the insert of the first job failed; the connection was
\* closed after the rollback
C13_Witness ==
  /\ exit = "raised"
  /\ conn = "closed"
  /\ err.type = "StorageError"
  /\ SubSeq(log, Len(log) - 2, Len(log))
       = << <<"insert", 1>>, <<"rollback", 1>>, <<"close", 0>> >>

\* the processing of the job at position p has ended
JobEnded(p) == p < idx \/ (p = idx /\ pc \in {"loop", "exit"})

\* the position of the log that holds the statement that raised
FailedOp ==
  IF err.type # "StorageError" THEN {}
  ELSE IF pc = "except" THEN {Len(log)} ELSE {Len(log) - 2}

\* every commit closes the store operations of one job: an operation of
\* another job that precedes it was closed by that job's own commit
CommitCoversOneJob ==
  \A i \in WhereOp("commit") : \A j \in 1..(i - 1) :
    (log[j][1] \in StoreOps /\ log[j][2] # log[i][2]) =>
      \E m \in j..(i - 1) : log[m] = <<"commit", log[j][2]>>

\* at most one rollback in a run, and no commit after it
RollbackIsLast ==
  /\ Cardinality(WhereOp("rollback")) <= 1
  /\ \A i \in WhereOp("rollback") : \A j \in (i + 1)..Len(log) :
       log[j][1] # "commit"

\* C14: for every job whose processing has started, the commit calls and
\* rollback calls issued for it number at most one, and exactly one when
\* its processing has ended (never both, never twice); every commit covers
\* the operations of one job, a run issues at most one rollback and no
\* commit follows a rollback.
C14_OneOutcomeIssued ==
  /\ \A p \in 1..Len(run_keys) :
       LET c == Cardinality(Where(<<"commit", p>>))
           r == Cardinality(Where(<<"rollback", p>>))
       IN  /\ c + r <= 1
           /\ JobEnded(p) => c + r = 1
  /\ CommitCoversOneJob
  /\ RollbackIsLast

\* C14 as amended: for every job whose processing has ended exactly one
\* outcome has taken effect, a commit call that succeeded if every step and
\* the commit call itself succeeded, one rollback otherwise; a rollback
\* follows a commit call of the same job only when that call raised; no job
\* has two successful commits or two rollbacks, a job in progress has none;
\* every commit covers the operations of one job, a run issues at most one
\* rollback and no commit follows a rollback.
C14_OneOutcomePerJob ==
  /\ \A p \in 1..Len(run_keys) :
       LET c == Cardinality(Where(<<"commit", p>>) \ FailedOp)
           r == Cardinality(Where(<<"rollback", p>>))
       IN  /\ c + r <= 1
           /\ JobEnded(p) =>
                /\ c + r = 1
                /\ c = 1 <=> ~(p = idx /\ err # NoErr)
           /\ ~JobEnded(p) => c + r = 0
           /\ Cardinality(Where(<<"commit", p>>)) <= 1
           /\ (Where(<<"commit", p>>) # {} /\ r = 1) =>
                Where(<<"commit", p>>) = FailedOp
  /\ CommitCoversOneJob
  /\ RollbackIsLast

\* C14 witness: the first job has committed, the commit call of the second
\* job raised and was followed by the rollback
C14_Witness ==
  /\ exit = "raised"
  /\ idx = 2
  /\ Where(<<"commit", 1>>) # {}
  /\ SubSeq(log, Len(log) - 2, Len(log))
       = << <<"commit", 2>>, <<"rollback", 2>>, <<"close", 0>> >>

\* the place of an operation in the processing of one job
Rank(what) ==
  CASE what = "get" -> 1
    [] what = "ensure_schema" -> 2
    [] what = "ensure_raw_table" -> 3
    [] what = "truncate" -> 4
    [] what = "insert" -> 5
    [] what = "transform" -> 6
    [] what = "commit" -> 7
    [] OTHER -> 8

\* whether the job at position p issues the store statement what: the
\* insert is issued for a non-empty RecordSet, the transform unless it is
\* switched off or the entry has no statement
Issues(what, p) ==
  CASE what = "insert" -> fetched[p] # << >>
    [] what = "transform" ->
         ~args.no_transform /\ registry[run_keys[p]] # ""
    [] OTHER -> TRUE

\* C15: the operations of the run's jobs appear job after job, and those of
\* one job in the order fetch, ensure schema and table, clear, bulk append,
\* transform, commit; when a store statement of a job is issued, the job's
\* fetch has returned (with all pages when there is no cap) and every
\* statement that precedes it in that order has been issued for the job (the
\* bulk append unless the RecordSet is empty, the transform unless it is
\* skipped); so the transform runs after the job's bulk append and before
\* its commit, with no commit or rollback in between.
C15_StepOrder ==
  /\ \A i, j \in 1..Len(log) :
       (i < j /\ log[i][2] >= 1 /\ log[j][2] >= 1) =>
         \/ log[i][2] < log[j][2]
         \/ log[i][2] = log[j][2] /\ Rank(log[i][1]) < Rank(log[j][1])
  /\ \A i \in 1..Len(log) :
       log[i][1] \in StoreOps =>
         LET p == log[i][2]
         IN  /\ Len(fetched) >= p
             /\ max_pages = NoCap =>
                  fetched[p] = ConcatPages(run_keys[p], NumPages(run_keys[p]))
             /\ \A w \in StoreOps :
                  Rank(w) < Rank(log[i][1]) =>
                    (Issues(w, p) <=> \E j \in 1..(i - 1) : log[j] = <<w, p>>)
  /\ pc \in {"ensure_schema", "ensure_raw_table", "truncate", "insert",
              "transform", "commit"} =>
       (Len(fetched) = idx /\ rows = fetched[idx] /\ url = NoUrl)

\* C15 witness: a job has fetched, created, cleared, loaded, transformed and
\* committed, in this order
C15_Witness ==
  /\ pc = "loop"
  /\ idx = 1
  /\ log = << <<"token", 0>>, <<"connect", 0>>, <<"get", 1>>,
              <<"ensure_schema", 1>>, <<"ensure_raw_table", 1>>,
              <<"truncate", 1>>, <<"insert", 1>>, <<"transform", 1>>,
              <<"commit", 1>> >>

\* the job at position p has committed
JobCommitted(p) == p < idx \/ (p = idx /\ (pc = "loop" \/ exit = "0"))

\* the transform of the job at position p is skipped
Skipped(p) == args.no_transform \/ registry[run_keys[p]] = ""

\* C16: with --no-transform no transform statement is executed for any job
\* of the run; for a job whose registry entry has no (or an empty) statement
\* none is executed; in both cases the job goes on to its commit and, once
\* committed, the run continues with the next job; for a job with a
\* statement and the switch unset the transform is executed exactly once
\* before the job commits.
C16_TransformSkipping ==
  \A p \in 1..Len(run_keys) :
    LET n == Cardinality(Where(<<"transform", p>>))
    IN  /\ Skipped(p) => n = 0
        /\ n <= 1
        /\ (Skipped(p) /\ idx = p /\ pc = "transform") =>
             /\ ENABLED SkipTransform
             /\ ~ENABLED (RunTransform \/ StorageError)
        /\ JobCommitted(p) =>
             /\ Where(<<"commit", p>>) # {}
             /\ ~Skipped(p) => n = 1
             /\ (p = idx /\ pc = "loop" /\ p < Len(run_keys)) =>
                  ENABLED JobStart

\* C16 witness: a run over the three jobs has returned 0 with the switch
\* unset; the first entry has no statement: its job committed without a
\* transform, the two others ran theirs once
C16_Witness ==
  /\ exit = "0"
  /\ ~args.no_transform
  /\ Len(run_keys) = 3
  /\ registry[run_keys[1]] = ""
  /\ WhereOp("transform") # {}
  /\ \A p \in 1..3 :
       Cardinality(Where(<<"transform", p>>)) = IF p = 1 THEN 0 ELSE 1
  /\ db.tables[run_keys[1]] = Loaded(fetched[1], 1)

\* the entity set of key k answers the first request with an empty record
\* list and no continuation link
EmptyOnly(k) == NumPages(k) = 1 /\ PageSizes(k)[1] = 0

\* C17: when the first response of a job's fetch holds an empty record list
\* and no continuation link, the fetch ends without an error and returns
\* the empty RecordSet; the bulk append issues no statement and cannot
\* fail; the job has cleared its table before, and once it has committed
\* the committed table exists and is empty, whatever it held before the run.
C17_EmptyPage ==
  (idx >= 1 /\ served = << FirstUrl(key) >> /\ EmptyOnly(key)) =>
    /\ pc = "fetch" =>
         /\ url = NoUrl
         /\ all_rows = << >>
         /\ err = NoErr
         /\ ENABLED DvReturn
         /\ ~CanRequest
    /\ Len(fetched) >= idx => fetched[idx] = << >>
    /\ Where(<<"insert", idx>>) = {}
    /\ pc = "insert" =>
         /\ rows = << >>
         /\ ENABLED InsertNothing
         /\ ~ENABLED (InsertRawRows \/ StorageError)
    /\ pc \in {"insert", "transform", "commit"} =>
         /\ Where(<<"truncate", idx>>) # {}
         /\ tx.tables[key] = Table(<< >>)
    /\ JobCommitted(idx) =>
         /\ Where(<<"truncate", idx>>) # {}
         /\ Where(<<"commit", idx>>) # {}
         /\ db.tables[key] = Table(<< >>)

\* C17 witness: the job of the empty entity set has committed over a table
\* that held a row before the run; the committed table is empty
C17_Witness ==
  /\ pc = "loop"
  /\ idx >= 1
  /\ EmptyOnly(key)
  /\ served = << FirstUrl(key) >>
  /\ pre_db.tables[key].rows # << >>
  /\ db.tables[key] = Table(<< >>)
  /\ Where(<<"commit", idx>>) # {}

\* every job of the selection has committed
AllCommitted ==
  /\ Missing(args.only) = << >>
  /\ \A p \in 1..Len(RunKeys(args.only)) :
       Where(<<"commit", p>>) \ FailedOp # {}

\* C18: when main() has ended, it has returned 0 if and only if every
\* selected job committed, it has returned 2 if and only if the requested
\* keys contain an unknown key, and in every other case it has returned no
\* status but raised; when the handler re-raised the failure of a job, the
\* rollback had been issued before.
C18_ExitStatus ==
  pc = "exit" =>
    /\ exit \in {"0", "2", "raised"}
    /\ exit = "0" <=> AllCommitted
    /\ exit = "2" <=> Missing(args.only) # << >>
    /\ exit = "raised" <=> (~AllCommitted /\ Missing(args.only) = << >>)
    /\ (exit = "raised" /\ idx >= 1) =>
         /\ err # NoErr
         /\ log[Len(log) - 1] = <<"rollback", idx>>

\* C19: with no page cap, (a) under a server that eventually answers a
\* repeated request with a response that is not a throttle status, a fetch
\* in progress eventually returns or raises; (b) a throttled response never
\* ends the fetch: it neither returns nor raises, the same URL stays to be
\* requested, and no store operation of the job and no later job starts, so
\* a server that throttles forever stalls the job.
C19_TerminationAndStall ==
  /\ [](( max_pages = NoCap /\ pc = "fetch") => <>(pc # "fetch"))
  /\ [][ (ThrottledStep /\ max_pages = NoCap) =>
           /\ pc' = "fetch"
           /\ err' = NoErr
           /\ url' = url
           /\ idx' = idx
           /\ fetched' = fetched
           /\ tx' = tx
       ]_vars

\* the positions of run_keys that hold key k and for which an operation of
\* kind what has been issued
Ran(k, what) ==
  { p \in 1..Len(run_keys) : run_keys[p] = k /\ Where(<<what, p>>) # {} }

\* C20: whatever the selection, also one that names a valid key more than
\* once, every job is fetched, loaded and committed at most once in a run.
C20_JobsRunOnce ==
  \A k \in Keys :
    /\ Cardinality(Ran(k, "get")) <= 1
    /\ Cardinality(Ran(k, "truncate")) <= 1
    /\ Cardinality(Ran(k, "commit")) <= 1
    /\ Cardinality({ p \in 1..Len(fetched) : run_keys[p] = k }) <= 1

====
